---- MODULE Spec2Model ----
(***************************************************************************)
(* LocalFlow: the SQLite-backed task queue (internal/queue/sqlite.go), the *)
(* worker pool that drains it (internal/worker/pool.go) and the process    *)
(* that starts them (cmd/localflow/main.go).                               *)
(*                                                                         *)
(* Time is the store's wall clock in whole seconds (CURRENT_TIMESTAMP has  *)
(* one-second resolution).  A task id is the row's position in the tasks   *)
(* table; 0 stands for the empty id "" of a zero-valued domain.Task.       *)
(* The specifications share the state:                                     *)
(*   Spec       the Repository interface called by arbitrary clients,      *)
(*              split at the SQL statements that other callers can         *)
(*              interleave with;                                           *)
(*   LeaseSpec  concurrent LeaseNext(now) calls over a given store;        *)
(*   SysSpec    main, the worker pool and the admin submission as the      *)
(*              program composes them (FairSysSpec adds the scheduling     *)
(*              of goroutines and of the clock).                           *)
(*   RunsSpec   SysSpec over several runs of the process: shutdown, a      *)
(*              panicking handler, restart (FairRunsSpec as above);        *)
(*   SchedSpec  the schedules table, the admin API that writes it and the  *)
(*              activator (internal/scheduler/service.go); TickSpec is the *)
(*              activator over several schedules, SiblingSpec the          *)
(*              activator over a schedules table found in the file;        *)
(*   BootSpec   main with the pool, the activator and the API together;    *)
(*   PoolSpec   Pool.Run of one run over a store that holds more ready     *)
(*              tasks than the pool has permits (FairPoolSpec as above);   *)
(*              SweepSpec adds RecoverStale calls beside the working pool; *)
(*   DefaultsSpec, BackoffSpec  Enqueue and backoffExp on given inputs.    *)
(***************************************************************************)
EXTENDS Integers, Sequences, FiniteSets, Bags, TLC

\* ------------------------------------------------------------------ bounds
MaxTasks == 2        \* rows of the tasks table under Spec
MaxClock == 2        \* last second of the wall clock under Spec
MaxRows == 2         \* rows of the task_attempts table under Spec
MaxZeroRows == 1     \* task_attempts rows of the empty task id that are counted
PoolSize == 2        \* capacity of p.sem (-workers)

\* ------------------------------------------------------- program constants
DefaultPriority == 5
DefaultMaxAttempts == 5
DefaultVisibilityTimeout == 60

NULL == "NULL"       \* a nil *string (idempotency_key IS NULL)
NoRow == 0 - 1       \* an id that names no row: a uuid that was never inserted

Clients == {"c1", "c2"}
Keys == {NULL, "k1"}
MaxAttemptsIn == {1, 2}
Delays == {1}

VARIABLES
    tasks,          \* table tasks: sequence of rows, the id is the index
    task_attempts,  \* table task_attempts: bag of [task_id, success, error]
    clock,          \* wall clock of the store, seconds
    conn,           \* holder of the pool's only connection, or "free"
    pc,             \* per client: the statement it is about to issue
    loc,            \* per client: draft being enqueued, lease argument and row
    ret,            \* what the Repository call that ended in this step returned
    store0,         \* LeaseSpec: the tasks table the calls started from
    lease_log,      \* LeaseSpec: ids returned by the completed LeaseNext calls
    proc,           \* where main is: "starting", "up", or gone ("down", "crashed")
    pool,           \* SysSpec: Pool.Run's position, its now and its leased Task
    workers,        \* SysSpec: the goroutines holding a slot of p.sem
    runs,           \* RunsSpec: how many times the process has been started
    schedules,      \* table schedules: sequence of rows, the id is the index
    activator,      \* scheduler.Service: its position, its now and its due list
    admin,          \* the updateSchedule request between its read and its write
    call            \* BackoffSpec: the argument and the result of a backoffExp call

vars == <<tasks, task_attempts, clock, conn, pc, loc, ret, store0, lease_log,
          proc, pool, workers, runs, schedules, activator, admin, call>>

\* What the queue, its clients and the pool never touch.
others == <<runs, schedules, activator, admin, call>>

\* What the callers of the Repository own.
callers == <<clock, conn, pc, loc, store0, lease_log, proc, pool, workers, others>>

\* ----------------------------------------------------------- domain.Task
Draft(ty, pl, pr, ma, vt, k) ==
    [type |-> ty, payload |-> pl, priority |-> pr, max_attempts |-> ma,
     visibility_timeout |-> vt, idempotency_key |-> k]

NoDraft == Draft("", "", 0, 0, 0, NULL)

\* Drafts the clients of Spec submit: the default priority, a one-second
\* visibility timeout; without a key, or with the key and a single attempt.
Drafts ==
    {Draft("shell", "true", 0, ma, 1, NULL) : ma \in MaxAttemptsIn}
        \cup {Draft("shell", "true", 0, 1, 1, k) : k \in Keys \ {NULL}}

\* No call ended in this step.
NoRet == [op |-> "", id |-> 0, err |-> FALSE, key |-> NULL, n |-> 0, now |-> 0]

Return(op, id, err, key, n, now) ==
    [op |-> op, id |-> id, err |-> err, key |-> key, n |-> n, now |-> now]

Ids == DOMAIN tasks

\* domain.Task{}: the zero value of the Task that LeaseNext scans into.
NoTask ==
    [id |-> 0, type |-> "", payload |-> "", priority |-> 0, state |-> "",
     attempts |-> 0, max_attempts |-> 0, next_run_at |-> 0,
     visibility_timeout |-> 0, idempotency_key |-> NULL,
     created_at |-> 0, updated_at |-> 0]

Slots == 1..PoolSize

\* A slot of p.sem that no goroutine holds.
Idle == [busy |-> FALSE, tk |-> NoTask]

\* Pool.Run before its first tick.
NoPool == [pc |-> "tick", now |-> 0, tk |-> NoTask]

\* scheduler.Service before its first tick: no now, no due list.
NoActivator == [pc |-> "wait", now |-> 0, due |-> <<>>, i |-> 1]

\* No updateSchedule request is between its GetSchedule and its UpdateSchedule.
NoAdmin == [pc |-> "idle", id |-> 0, enabled |-> FALSE, cron_expr |-> "", next_run |-> 0]

\* No backoffExp call has been made.
NoCall == [fn |-> "", arg |-> 0, val |-> 0]

\* db.SetMaxOpenConns(1): a transaction holds the only connection from BeginTx
\* to Commit/Rollback, and every other statement waits for it.  (ConnTaken: a
\* pool that opens a further connection instead.)
ConnTaken == TRUE
ConnFree == conn = "free"

\* ------------------------------------------------------------- Enqueue
\* (ApplyNoDefaults: an Enqueue that stores the draft as it came.)
ApplyNoDefaults(t) == t
ApplyDefaults(t) ==
    [t EXCEPT !.priority = IF @ = 0 THEN DefaultPriority ELSE @,
              !.max_attempts = IF @ = 0 THEN DefaultMaxAttempts ELSE @,
              !.visibility_timeout = IF @ = 0 THEN DefaultVisibilityTimeout ELSE @]

\* SELECT id FROM tasks WHERE idempotency_key = ?  (FindNoKey: an Enqueue
\* without the lookup.)
FindNoKey(ts, k) == {}
FindByKey(ts, k) == {i \in DOMAIN ts : ts[i].idempotency_key = k}

\* idx_tasks_idem: UNIQUE on idempotency_key WHERE idempotency_key IS NOT NULL
\* (NoUniqueIndex: the schema without it.)
NoUniqueIndex(ts, k) == FALSE
UniqueViolation(ts, k) == k # NULL /\ \E i \in DOMAIN ts : ts[i].idempotency_key = k

\* INSERT INTO tasks ... VALUES (?,?,?,?,'queued',0,?,CURRENT_TIMESTAMP,?,?,CURRENT_TIMESTAMP,CURRENT_TIMESTAMP)
NewRow(t, ts) ==
    [type |-> t.type, payload |-> t.payload, priority |-> t.priority,
     state |-> "queued", attempts |-> 0,
     max_attempts |-> t.max_attempts, next_run_at |-> ts,
     visibility_timeout |-> t.visibility_timeout,
     idempotency_key |-> t.idempotency_key, created_at |-> ts, updated_at |-> ts]

\* The INSERT and what Enqueue returns after it: (id, err).
InsertTask(t) ==
    IF UniqueViolation(tasks, t.idempotency_key)
    THEN /\ tasks' = tasks
         /\ ret' = Return("Enqueue", NoRow, TRUE, t.idempotency_key, 0, 0)
    ELSE /\ tasks' = Append(tasks, NewRow(t, clock))
         /\ ret' = Return("Enqueue", Len(tasks) + 1, FALSE, t.idempotency_key, 0, 0)

\* Keys of the rows the Enqueue calls past their lookup are about to insert.
PendingKeys == {loc[c].draft.idempotency_key : c \in {d \in Clients : pc[d] = "enq_insert"}}

\* The bound on the tasks table: an Enqueue that would insert a row beyond cap
\* is not started.
RoomFor(draft, cap) ==
    \/ draft.idempotency_key # NULL /\ FindByKey(tasks, draft.idempotency_key) # {}
    \/ Len(tasks) + Cardinality(PendingKeys \ {draft.idempotency_key}) < cap

\* Enqueue up to the INSERT: defaults, then the lookup of the idempotency key.
\* A draft without a key issues no statement before the INSERT.
Enqueue(c, draft) ==
    /\ pc[c] = "idle"
    /\ ConnFree
    /\ LET t == ApplyDefaults(draft)
           found == IF t.idempotency_key # NULL THEN FindByKey(tasks, t.idempotency_key) ELSE {}
       IN  IF found # {}
           THEN /\ ret' = Return("Enqueue", CHOOSE i \in found : TRUE, FALSE,
                                 t.idempotency_key, 0, 0)
                /\ UNCHANGED <<tasks, pc, loc>>
           ELSE IF t.idempotency_key = NULL
                THEN InsertTask(t) /\ UNCHANGED <<pc, loc>>
                ELSE /\ pc' = [pc EXCEPT ![c] = "enq_insert"]
                     /\ loc' = [loc EXCEPT ![c].draft = t]
                     /\ ret' = NoRet
                     /\ UNCHANGED tasks
    /\ UNCHANGED <<task_attempts, clock, conn, store0, others, lease_log, proc, pool, workers>>

\* The INSERT of an Enqueue whose key lookup found no row.
EnqueueInsert(c) ==
    /\ pc[c] = "enq_insert"
    /\ ConnFree
    /\ InsertTask(loc[c].draft)
    /\ pc' = [pc EXCEPT ![c] = "idle"]
    /\ loc' = [loc EXCEPT ![c].draft = NoDraft]
    /\ UNCHANGED <<task_attempts, clock, conn, store0, others, lease_log, proc, pool, workers>>

\* ------------------------------------------------------------ LeaseNext
\* WHERE state='queued' AND next_run_at <= ?
\* (ReadyAnyTime: the WHERE clause without its next_run_at <= ? term.)
ReadyAnyTime(ts, now) == {i \in DOMAIN ts : ts[i].state = "queued"}
Ready(ts, now) == {i \in DOMAIN ts : ts[i].state = "queued" /\ ts[i].next_run_at <= now}

\* ORDER BY priority DESC, created_at ASC: row a sorts before row b
\* (BeforeAsc: ORDER BY priority ASC, created_at ASC.)
BeforeAsc(a, b) ==
    \/ a.priority < b.priority
    \/ a.priority = b.priority /\ a.created_at < b.created_at
Before(a, b) ==
    \/ a.priority > b.priority
    \/ a.priority = b.priority /\ a.created_at < b.created_at

\* ... LIMIT 1: the rows no other ready row sorts before (SQLite may return
\* any of them when priority and created_at tie).
FirstReady(ts, now) ==
    {i \in Ready(ts, now) : \A j \in Ready(ts, now) : ~Before(ts[j], ts[i])}

\* UPDATE tasks SET state='running', updated_at=CURRENT_TIMESTAMP WHERE id=?
LeaseRow(r, ts) == [r EXCEPT !.state = "running", !.updated_at = ts]

\* The whole transaction, which no other statement can interleave with (see
\* LeaseSpec for its statements).  sql.ErrNoRows returns tx.Rollback(), which
\* is nil: the caller gets a zero-valued Task, id 0, and no error.
LeaseNext(now) ==
    /\ LET first == FirstReady(tasks, now)
       IN  IF first = {}
           THEN /\ ret' = Return("LeaseNext", 0, FALSE, NULL, 0, 0)
                /\ UNCHANGED tasks
           ELSE \E i \in first :
                   /\ tasks' = [tasks EXCEPT ![i] = LeaseRow(@, clock)]
                   /\ ret' = Return("LeaseNext", i, FALSE, NULL, 0, 0)
    /\ UNCHANGED task_attempts

\* ------------------------------------------------- Retry, Succeed, Fail
AttemptRow(id, success, error) == [task_id |-> id, success |-> success, error |-> error]

\* UPDATE tasks SET attempts = attempts + 1, state = CASE ... END,
\*   next_run_at = datetime(CURRENT_TIMESTAMP, '+N seconds'), updated_at = ...
RetryRow(r, delay, ts) ==
    [r EXCEPT !.attempts = r.attempts + 1,
              !.state = IF r.attempts + 1 >= r.max_attempts THEN "failed" ELSE "queued",
              !.next_run_at = ts + delay,
              !.updated_at = ts]

\* UPDATE tasks SET state='succeeded', updated_at=CURRENT_TIMESTAMP WHERE id=?
SucceedRow(r, ts) == [r EXCEPT !.state = "succeeded", !.updated_at = ts]

\* (FailRowBudget: a Fail that honours the retry budget, as Retry does.)
FailRowBudget(r, ts) == RetryRow(r, 0, ts)

\* UPDATE tasks SET state='failed', updated_at=CURRENT_TIMESTAMP WHERE id=?
FailRow(r, ts) == [r EXCEPT !.state = "failed", !.updated_at = ts]

\* One ExecContext carrying "INSERT INTO task_attempts ...; UPDATE tasks ...":
\* two statements outside any transaction, each committed on its own.  The
\* call ends "ok" (both ran), "partial" (the store failed or the context was
\* cancelled after the INSERT) or "fail" (before it).
AckOutcomes == {"ok", "partial", "fail"}

\* INSERT INTO task_attempts(task_id, success, error, ...).  Foreign keys are
\* not enforced, so the empty id is recorded too; the model stops counting
\* the rows of the empty id at MaxZeroRows.
InsertAttempt(bag, attempt) ==
    IF attempt.task_id = 0 /\ CopiesIn(attempt, bag) >= MaxZeroRows
    THEN bag
    ELSE bag (+) SetToBag({attempt})

ExecAck(id, attempt, row, outcome) ==
    /\ task_attempts' = IF outcome = "fail" THEN task_attempts
                        ELSE InsertAttempt(task_attempts, attempt)
    /\ tasks' = IF outcome = "ok" /\ id \in Ids
                THEN [tasks EXCEPT ![id] = row]
                ELSE tasks

\* The row the UPDATE ... WHERE id=? rewrites; no row has the empty id.
RowOf(id) == IF id \in Ids THEN tasks[id] ELSE NoTask

Retry(id, errStr, delay, outcome) ==
    /\ ExecAck(id, AttemptRow(id, 0, errStr), RetryRow(RowOf(id), delay, clock), outcome)
    /\ ret' = Return("Retry", 0, outcome # "ok", NULL, 0, 0)

Succeed(id, outcome) ==
    /\ ExecAck(id, AttemptRow(id, 1, ""), SucceedRow(RowOf(id), clock), outcome)
    /\ ret' = Return("Succeed", 0, outcome # "ok", NULL, 0, 0)

Fail(id, errStr, outcome) ==
    /\ ExecAck(id, AttemptRow(id, 0, errStr), FailRow(RowOf(id), clock), outcome)
    /\ ret' = Return("Fail", 0, outcome # "ok", NULL, 0, 0)

\* --------------------------------------------------------- RecoverStale
\* WHERE state='running' AND strftime('%s','now') - strftime('%s',updated_at) > visibility_timeout
Stale(r, ts) == r.state = "running" /\ ts - r.updated_at > r.visibility_timeout

\* SET state='queued', next_run_at=CURRENT_TIMESTAMP, updated_at=CURRENT_TIMESTAMP
RecoverRow(r, ts) == [r EXCEPT !.state = "queued", !.next_run_at = ts, !.updated_at = ts]

\* The UPDATE reads the store's clock, wall; the argument now is not used.
RecoverAll(ts, now, wall) ==
    [i \in DOMAIN ts |-> IF Stale(ts[i], wall) THEN RecoverRow(ts[i], wall) ELSE ts[i]]

\* res.RowsAffected()
RecoverCount(ts, now, wall) == Cardinality({i \in DOMAIN ts : Stale(ts[i], wall)})

RecoverStale(now) ==
    /\ tasks' = RecoverAll(tasks, now, clock)
    /\ ret' = Return("RecoverStale", 0, FALSE, NULL, RecoverCount(tasks, now, clock), now)
    /\ UNCHANGED task_attempts

\* ---------------------------------------------------------------- clock
Tick ==
    /\ clock < MaxClock
    /\ clock' = clock + 1
    /\ ret' = NoRet
    /\ UNCHANGED <<tasks, task_attempts, conn, pc, loc, store0, others, lease_log, proc, pool, workers>>

\* ------------------------------------------------------------------ Spec
NoLoc == [draft |-> NoDraft, now |-> 0, row |-> 0]

\* A Repository method that is one statement or one transaction, called by
\* any goroutine once the connection is free.
Call(Method) == ConnFree /\ Method /\ UNCHANGED callers

Init ==
    /\ tasks = <<>>
    /\ task_attempts = EmptyBag
    /\ clock = 0
    /\ conn = "free"
    /\ pc = [c \in Clients |-> "idle"]
    /\ loc = [c \in Clients |-> NoLoc]
    /\ ret = NoRet
    /\ store0 = <<>>
    /\ lease_log = <<>>
    /\ proc = "starting"
    /\ pool = NoPool
    /\ workers = [w \in Slots |-> Idle]
    /\ runs = 1
    /\ schedules = <<>>
    /\ activator = NoActivator
    /\ admin = NoAdmin
    /\ call = NoCall

\* The bound on the task_attempts table.
RoomForAttempt == BagCardinality(task_attempts) < MaxRows

Next ==
    \/ Tick
    \/ \E c \in Clients, d \in Drafts : RoomFor(d, MaxTasks) /\ Enqueue(c, d)
    \/ \E c \in Clients : EnqueueInsert(c)
    \/ \E now \in 0..MaxClock : Call(LeaseNext(now))
    \/ \E id \in Ids, delay \in Delays, o \in AckOutcomes :
          RoomForAttempt /\ Call(Retry(id, "boom", delay, o))
    \/ \E id \in Ids, o \in AckOutcomes : RoomForAttempt /\ Call(Succeed(id, o))
    \/ \E id \in Ids, o \in AckOutcomes : RoomForAttempt /\ Call(Fail(id, "boom", o))
    \/ \E now \in 0..MaxClock : Call(RecoverStale(now))

Spec == Init /\ [][Next]_vars

\* ------------------------------------------------------------- LeaseSpec
\* Concurrent LeaseNext(now) calls, statement by statement, over a store
\* that Enqueue, LeaseNext and Retry have filled before.
LeaseMaxTasks == 3   \* rows of the tasks table under LeaseSpec
MaxLeaseCalls == 4   \* LeaseNext calls under LeaseSpec

LeasePriorities == {0, 3}
LeaseKinds == {"ready", "delayed", "running"}

\* A row created at second c as the operations leave it by second now:
\* enqueued; enqueued and leased; enqueued, leased and retried at now.
LeaseSpecRow(kind, pr, c, now) ==
    LET new == NewRow(ApplyDefaults(Draft("shell", "true", pr, 0, 0, NULL)), c)
    IN  CASE kind = "ready" -> new
          [] kind = "running" -> LeaseRow(new, c)
          [] kind = "delayed" -> RetryRow(LeaseRow(new, c), 1, now)

\* created_at never decreases along the table: rows are inserted in time order.
InsertOrder(cs) ==
    \A i \in DOMAIN cs : IF i = 1 THEN cs[i] = 0 ELSE cs[i] - cs[i - 1] \in {0, 1}

InitLease ==
    /\ \E n \in 0..LeaseMaxTasks :
          \E cs \in [1..n -> 0..n], ks \in [1..n -> LeaseKinds], ps \in [1..n -> LeasePriorities] :
             /\ InsertOrder(cs)
             /\ clock = n
             /\ tasks = [i \in 1..n |-> LeaseSpecRow(ks[i], ps[i], cs[i], n)]
    /\ task_attempts = SetToBag({AttemptRow(i, 0, "boom") : i \in {j \in DOMAIN tasks : tasks[j].attempts = 1}})
    /\ store0 = tasks
    /\ conn = "free"
    /\ pc = [c \in Clients |-> "idle"]
    /\ loc = [c \in Clients |-> NoLoc]
    /\ ret = NoRet
    /\ lease_log = <<>>
    /\ proc = "starting"
    /\ pool = NoPool
    /\ workers = [w \in Slots |-> Idle]
    /\ runs = 1
    /\ schedules = <<>>
    /\ activator = NoActivator
    /\ admin = NoAdmin
    /\ call = NoCall

\* BeginTx
LeaseBegin(c, now) ==
    /\ pc[c] = "idle"
    /\ ConnFree
    /\ Len(lease_log) + Cardinality({d \in Clients : pc[d] # "idle"}) < MaxLeaseCalls
    /\ conn' = c
    /\ pc' = [pc EXCEPT ![c] = "lease_select"]
    /\ loc' = [loc EXCEPT ![c].now = now]
    /\ ret' = NoRet
    /\ UNCHANGED <<tasks, task_attempts, clock, store0, others, lease_log, proc, pool, workers>>

\* The SELECT and its Scan; on sql.ErrNoRows the call returns tx.Rollback().
LeaseSelect(c) ==
    /\ pc[c] = "lease_select"
    /\ LET first == FirstReady(tasks, loc[c].now)
       IN  IF first = {}
           THEN /\ conn' = "free"
                /\ pc' = [pc EXCEPT ![c] = "idle"]
                /\ loc' = [loc EXCEPT ![c].now = 0]
                /\ ret' = Return("LeaseNext", 0, FALSE, NULL, 0, 0)
                /\ lease_log' = Append(lease_log, 0)
           ELSE /\ \E i \in first : loc' = [loc EXCEPT ![c].row = i]
                /\ pc' = [pc EXCEPT ![c] = "lease_commit"]
                /\ ret' = NoRet
                /\ UNCHANGED <<conn, lease_log>>
    /\ UNCHANGED <<tasks, task_attempts, clock, store0, others, proc, pool, workers>>

\* The UPDATE and the Commit; the returned Task is the row as the SELECT read it.
LeaseCommit(c) ==
    /\ pc[c] = "lease_commit"
    /\ tasks' = [tasks EXCEPT ![loc[c].row] = LeaseRow(@, clock)]
    /\ conn' = "free"
    /\ pc' = [pc EXCEPT ![c] = "idle"]
    /\ loc' = [loc EXCEPT ![c].now = 0, ![c].row = 0]
    /\ ret' = Return("LeaseNext", loc[c].row, FALSE, NULL, 0, 0)
    /\ lease_log' = Append(lease_log, loc[c].row)
    /\ UNCHANGED <<task_attempts, clock, store0, others, proc, pool, workers>>

NextLease ==
    \/ \E c \in Clients : LeaseBegin(c, clock)
    \/ \E c \in Clients : LeaseSelect(c)
    \/ \E c \in Clients : LeaseCommit(c)

LeaseSpec == InitLease /\ [][NextLease]_vars

\* --------------------------------------------------------------- SysSpec
\* One run of the process over a new database, from the start of main up to
\* its shutdown signal: the startup recovery, Pool.Run, the goroutines it
\* starts, and POST /api/tasks.
SysMaxTasks == 1      \* tasks submitted in the run
SysMaxAttempts == 3   \* max_attempts of the submitted tasks

\* main's handlers registry
Handlers == {"shell", "http"}

\* shell.Shell.Handle returns an error unless the command exits with status 0.
HandlerFails(payload) == payload # "true"

\* submitTask: type, payload, priority and max_attempts of the request, no
\* idempotency key here, VisibilityTimeout: 60.
SysDrafts ==
    {Draft("shell", "true", 0, SysMaxAttempts, 60, NULL),
     Draft("shell", "false", 0, SysMaxAttempts, 60, NULL),
     Draft("ghost", "true", 0, SysMaxAttempts, 60, NULL)}

\* The Task that LeaseNext scans from row i.
TaskOf(i, r) == [f \in DOMAIN NoTask |-> IF f = "id" THEN i ELSE r[f]]

\* The width of the Go int on the 64-bit builds of the process.
IntBits == 64

\* The model's integers are narrower than the int.  BigInt stands for every
\* power of two from 2^31 to 2^(IntBits-2), all of them above the cap of 60
\* they are compared with, and MinInt for -2^(IntBits-1).
BigInt == 2 ^ 30
MinInt == 0 - BigInt

\* 1 << n on an int, n >= 0: the bit moves to the sign at n = IntBits - 1 and
\* is shifted out beyond it.
ShiftLeftOne(n) ==
    IF n <= 30 THEN 2 ^ n
    ELSE IF n < IntBits - 1 THEN BigInt
    ELSE IF n = IntBits - 1 THEN MinInt
    ELSE 0

\* time.Duration(d) * time.Second in whole seconds, the int64 product wrapped:
\* -2^63 * 10^9 is a multiple of 2^64, so the minimum int gives 0.
DurationSeconds(d) == IF d = MinInt THEN 0 ELSE d

backoffExp(attempts) ==
    IF attempts <= 0 THEN 1
    ELSE LET d == ShiftLeftOne(attempts - 1)
         IN  DurationSeconds(IF d > 60 THEN 60 ELSE d)

\* repo.RecoverStale(context.Background(), time.Now()), once, before the pool
\* and the HTTP server start.
Startup ==
    /\ proc = "starting"
    /\ RecoverStale(clock)
    /\ proc' = "up"
    /\ UNCHANGED <<clock, conn, pc, loc, store0, others, lease_log, pool, workers>>

\* (PoolTickEarly: a pool whose Run was started before main's recovery.)
PoolTickEarly ==
    /\ pool.pc = "tick"
    /\ pool' = [pool EXCEPT !.pc = "lease", !.now = clock]
    /\ ret' = NoRet
    /\ UNCHANGED <<tasks, task_attempts, clock, conn, pc, loc, store0, others, lease_log, proc, workers>>

\* case now := <-t.C
PoolTick ==
    /\ proc = "up"
    /\ pool.pc = "tick"
    /\ pool' = [pool EXCEPT !.pc = "lease", !.now = clock]
    /\ ret' = NoRet
    /\ UNCHANGED <<tasks, task_attempts, clock, conn, pc, loc, store0, others, lease_log, proc, workers>>

\* task, lease, err := p.repo.LeaseNext(ctx, now) with err == nil
PoolLease ==
    /\ pool.pc = "lease"
    /\ LeaseNext(pool.now)
    /\ pool' = [pool EXCEPT !.pc = "sem",
                            !.tk = IF ret'.id = 0 THEN NoTask
                                   ELSE TaskOf(ret'.id, tasks[ret'.id])]
    /\ UNCHANGED <<clock, conn, pc, loc, store0, others, lease_log, proc, workers>>

\* The store fails the transaction: if err != nil { break }, back to the select.
PoolLeaseErr ==
    /\ pool.pc = "lease"
    /\ ret' = Return("LeaseNext", 0, TRUE, NULL, 0, 0)
    /\ pool' = NoPool
    /\ UNCHANGED <<tasks, task_attempts, clock, conn, pc, loc, store0, others, lease_log, proc, workers>>

\* (FreeSlotsAll: a send on p.sem that never blocks.)
FreeSlotsAll == Slots
FreeSlots == {w \in Slots : ~workers[w].busy}

\* p.sem <- struct{}{} and go func(tk domain.Task); the slots of the semaphore
\* are interchangeable, the goroutine takes the lowest free one.
PoolDispatch ==
    /\ pool.pc = "sem"
    /\ FreeSlots # {}
    /\ LET w == CHOOSE v \in FreeSlots : \A u \in FreeSlots : v <= u
       IN  workers' = [workers EXCEPT ![w] = [busy |-> TRUE, tk |-> pool.tk]]
    /\ pool' = [pool EXCEPT !.pc = "lease", !.tk = NoTask]
    /\ ret' = NoRet
    /\ UNCHANGED <<tasks, task_attempts, clock, conn, pc, loc, store0, others, lease_log, proc>>

\* The goroutine of one leased Task, from the handler lookup to its ack and
\* the release of its slot; the error of the ack is dropped.
Worker(w, outcome) ==
    /\ workers[w].busy
    /\ LET tk == workers[w].tk
       IN  IF tk.type \notin Handlers
           THEN Fail(tk.id, "no handler", outcome)
           ELSE IF HandlerFails(tk.payload)
                THEN Retry(tk.id, "shell error", backoffExp(tk.attempts), outcome)
                ELSE Succeed(tk.id, outcome)
    /\ workers' = [workers EXCEPT ![w] = Idle]
    /\ UNCHANGED <<clock, conn, pc, loc, store0, others, lease_log, proc, pool>>

\* POST /api/tasks
Submit(c, d) ==
    /\ proc = "up"
    /\ d.type # ""
    /\ Len(tasks) < SysMaxTasks
    /\ Enqueue(c, d)

\* The instants at which a stored task changes with the clock alone: a queued
\* task becomes due, a lease becomes stale.
Deadlines ==
    {tasks[i].next_run_at : i \in {j \in Ids : tasks[j].state = "queued"}}
        \cup {tasks[i].updated_at + tasks[i].visibility_timeout + 1 :
                 i \in {j \in Ids : tasks[j].state = "running"}}

\* Time passes, to one of these instants; the time in which no task waits for
\* the clock is skipped.
SysTick ==
    /\ \E t \in Deadlines : t > clock /\ clock' = t
    /\ ret' = NoRet
    /\ UNCHANGED <<tasks, task_attempts, conn, pc, loc, store0, others, lease_log, proc, pool, workers>>

SysNext ==
    \/ Startup
    \/ PoolTick
    \/ PoolLease
    \/ PoolLeaseErr
    \/ PoolDispatch
    \/ \E w \in Slots, o \in AckOutcomes : Worker(w, o)
    \/ \E c \in Clients, d \in SysDrafts : Submit(c, d)
    \/ SysTick

SysSpec == Init /\ [][SysNext]_vars

\* The Go scheduler runs every runnable goroutine, the ticker keeps firing,
\* time passes; nothing makes the store fail.
SysFairness ==
    /\ WF_vars(Startup)
    /\ WF_vars(PoolTick)
    /\ WF_vars(PoolLease)
    /\ WF_vars(PoolDispatch)
    /\ \A w \in Slots : WF_vars(\E o \in AckOutcomes : Worker(w, o))
    /\ WF_vars(SysTick)

FairSysSpec == SysSpec /\ SysFairness

\* ------------------------------------------------------------ PoolSpec
\* The pool of one run of the process, started over a database file in which
\* an earlier run left up to PoolMaxTasks queued tasks, more than the pool has
\* permits: Pool.Run alone, with no submissions.
PoolMaxTasks == 3

\* What the earlier run accepted: a command that succeeds, one that fails and
\* a type nobody registered, each with a single attempt.
PoolDrafts ==
    {Draft("shell", "true", 0, 1, 60, NULL),
     Draft("shell", "false", 0, 1, 60, NULL),
     Draft("ghost", "true", 0, 1, 60, NULL)}

InitPool ==
    /\ \E n \in 0..PoolMaxTasks :
          \E ds \in [1..n -> PoolDrafts] :
             tasks = [i \in 1..n |-> NewRow(ApplyDefaults(ds[i]), 0)]
    /\ task_attempts = EmptyBag
    /\ clock = 0
    /\ conn = "free"
    /\ pc = [c \in Clients |-> "idle"]
    /\ loc = [c \in Clients |-> NoLoc]
    /\ ret = NoRet
    /\ store0 = <<>>
    /\ lease_log = <<>>
    /\ proc = "starting"
    /\ pool = NoPool
    /\ workers = [w \in Slots |-> Idle]
    /\ runs = 1
    /\ schedules = <<>>
    /\ activator = NoActivator
    /\ admin = NoAdmin
    /\ call = NoCall

\* The store answers every call of this run.
PoolNext ==
    \/ Startup
    \/ PoolTick
    \/ PoolLease
    \/ PoolDispatch
    \/ \E w \in Slots : Worker(w, "ok")
    \/ SysTick

PoolSpec == InitPool /\ [][PoolNext]_vars

FairPoolSpec == PoolSpec /\ SysFairness

\* ----------------------------------------------------------- SweepSpec
\* The same run, with RecoverStale called on its store while its pool works:
\* the call main makes at its start, here made by a further instance of the
\* service started over the same database file.  The pool's own LeaseNext may
\* find the database locked by that instance and fail.
Sweep == proc = "up" /\ Call(RecoverStale(clock))

\* Time passes until the first leases of the run have become stale.
MaxSweepClock == 61

SweepNext ==
    \/ Startup
    \/ PoolTick
    \/ PoolLease
    \/ PoolLeaseErr
    \/ PoolDispatch
    \/ \E w \in Slots : Worker(w, "ok")
    \/ Sweep
    \/ clock < MaxSweepClock /\ SysTick

SweepSpec == InitPool /\ [][SweepNext]_vars

\* --------------------------------------------------------------- RunsSpec
\* The process over the database file from one run to the next: it ends on a
\* signal or on a panic, and is started again.
MaxRuns == 2          \* process starts

\* The process is gone: Pool.Run, scheduler.Service, the requests being
\* served and the goroutines of the leased tasks with it.  What they had leased and not acknowledged stays as the store has it.
\* The model follows MaxRuns runs and lets the last of them run on.
ProcessExit(how) ==
    /\ runs < MaxRuns
    /\ proc' = how
    /\ pool' = NoPool
    /\ workers' = [w \in Slots |-> Idle]
    /\ activator' = NoActivator
    /\ admin' = NoAdmin
    /\ ret' = NoRet
    /\ UNCHANGED <<tasks, task_attempts, clock, conn, pc, loc, store0, lease_log,
                   runs, schedules, call>>

\* <-sig; cancel(); srv.Shutdown; main returns.  The handlers run under the
\* cancelled ctx are killed and the acks issued with it fail.
Shutdown ==
    /\ proc = "up"
    /\ ProcessExit("down")

\* h.Handle panics in the goroutine of slot w.  The goroutine defers only
\* <-p.sem and cancel(), nothing recovers: the runtime ends the process.
HandlerPanic(w) ==
    /\ workers[w].busy
    /\ workers[w].tk.type \in Handlers
    /\ ProcessExit("crashed")

\* The service is started again over the same database file.
Restart ==
    /\ proc \in {"down", "crashed"}
    /\ proc' = "starting"
    /\ runs' = runs + 1
    /\ ret' = NoRet
    /\ UNCHANGED <<tasks, task_attempts, clock, conn, pc, loc, store0, lease_log,
                   pool, workers, schedules, activator, admin, call>>

RunsNext ==
    \/ SysNext
    \/ Shutdown
    \/ \E w \in Slots : HandlerPanic(w)
    \/ Restart

RunsSpec == Init /\ [][RunsNext]_vars

\* As in FairSysSpec; whoever runs the service starts it again after it ends.
FairRunsSpec == RunsSpec /\ SysFairness /\ WF_vars(Restart)

\* -------------------------------------------------------------- SchedSpec
\* The schedules table, the admin API that writes it and scheduler.Service
\* that fires it, in one run of the process.
MaxSchedules == 1       \* schedules created in the run
MaxSchedTasks == 2      \* tasks the activator enqueues in the run
MaxSchedClock == 120    \* last second of the run
SchedStep == 30         \* seconds between two instants of the run

\* last_run IS NULL
NoRun == 0 - 1

\* Standard five-field expressions: every minute, every second minute.
Crons == {"* * * * *", "*/2 * * * *"}

\* Seconds between two firing times of the expression.
CronPeriod(expr) == IF expr = "* * * * *" THEN 60 ELSE 120

\* cron.Schedule.Next(t): the first firing time strictly after t.
\* (CronNextOrNow: a Next that returns t when t is a firing time.)
CronNextOrNow(expr, t) ==
    IF t % CronPeriod(expr) = 0 THEN t ELSE ((t \div CronPeriod(expr)) + 1) * CronPeriod(expr)
CronNext(expr, t) == ((t \div CronPeriod(expr)) + 1) * CronPeriod(expr)

\* scheduler.NextRunTime(cronExpr, from)
NextRunTime(expr, from) == CronNext(expr, from)

SchedIds == DOMAIN schedules

\* A row of schedules; present is FALSE once the row has been deleted.
ScheduleRow(expr, en, lastRun, nextRun, ts) ==
    [present |-> TRUE, cron_expr |-> expr, task_type |-> "shell", enabled |-> en,
     last_run |-> lastRun, next_run |-> nextRun, created_at |-> ts]

\* POST /api/schedules: the expression is validated, next_run is computed
\* from time.Now(), CreateSchedule inserts the row with last_run NULL.
createSchedule(expr, en) ==
    /\ proc = "up"
    /\ schedules' = Append(schedules,
                           ScheduleRow(expr, en, NoRun, NextRunTime(expr, clock), clock))
    /\ ret' = Return("CreateSchedule", Len(schedules) + 1, FALSE, NULL, 0, 0)
    /\ UNCHANGED <<tasks, task_attempts, clock, conn, pc, loc, store0, lease_log,
                   proc, pool, workers, runs, activator, admin, call>>

\* PUT /api/schedules/{id}, up to its write: GetSchedule, then the fields of
\* the request are laid over the row that was read.  A request without
\* cron_expr (expr = "") keeps the expression and the next_run that were read;
\* enabled is always taken from the request.
updateScheduleRead(id, expr, en) ==
    /\ proc = "up"
    /\ admin.pc = "idle"
    /\ id \in SchedIds
    /\ schedules[id].present
    /\ admin' = [pc |-> "write", id |-> id, enabled |-> en,
                 cron_expr |-> IF expr = "" THEN schedules[id].cron_expr ELSE expr,
                 next_run |-> IF expr = "" THEN schedules[id].next_run
                              ELSE NextRunTime(expr, clock)]
    /\ ret' = Return("GetSchedule", id, FALSE, NULL, 0, 0)
    /\ UNCHANGED <<tasks, task_attempts, clock, conn, pc, loc, store0, lease_log,
                   proc, pool, workers, runs, schedules, activator, call>>

\* UPDATE schedules SET ...,cron_expr=?,...,enabled=?,next_run=?,... WHERE id=?
\* last_run is not among the columns; a deleted row is not matched.
UpdateSchedule(ss, a) ==
    IF ss[a.id].present
    THEN [ss EXCEPT ![a.id].cron_expr = a.cron_expr,
                    ![a.id].enabled = a.enabled,
                    ![a.id].next_run = a.next_run]
    ELSE ss

\* The write of the PUT.
updateScheduleWrite ==
    /\ admin.pc = "write"
    /\ schedules' = UpdateSchedule(schedules, admin)
    /\ admin' = NoAdmin
    /\ ret' = Return("UpdateSchedule", admin.id, FALSE, NULL, 0, 0)
    /\ UNCHANGED <<tasks, task_attempts, clock, conn, pc, loc, store0, lease_log,
                   proc, pool, workers, runs, activator, call>>

\* DELETE /api/schedules/{id}
deleteSchedule(id) ==
    /\ proc = "up"
    /\ id \in SchedIds
    /\ schedules[id].present
    /\ schedules' = [schedules EXCEPT ![id].present = FALSE]
    /\ ret' = Return("DeleteSchedule", id, FALSE, NULL, 0, 0)
    /\ UNCHANGED <<tasks, task_attempts, clock, conn, pc, loc, store0, lease_log,
                   proc, pool, workers, runs, activator, admin, call>>

\* WHERE enabled=1 AND next_run <= ?
Due(ss, now) == {i \in DOMAIN ss : ss[i].present /\ ss[i].enabled /\ ss[i].next_run <= now}

\* ORDER BY next_run; rows of equal next_run come in the order of the table.
RECURSIVE OrderByNextRun(_, _)
OrderByNextRun(ss, ids) ==
    IF ids = {} THEN <<>>
    ELSE LET first == CHOOSE i \in ids :
                         \A j \in ids : \/ ss[i].next_run < ss[j].next_run
                                        \/ ss[i].next_run = ss[j].next_run /\ i <= j
         IN  <<[id |-> first, cron_expr |-> ss[first].cron_expr,
                task_type |-> ss[first].task_type, next_run |-> ss[first].next_run]>>
                 \o OrderByNextRun(ss, ids \ {first})

GetDueSchedules(ss, now) == OrderByNextRun(ss, Due(ss, now))

\* case now := <-ticker.C and the query of processDueSchedules.
processDueSchedules ==
    /\ proc = "up"
    /\ activator.pc = "wait"
    /\ LET due == GetDueSchedules(schedules, clock)
       IN  /\ activator' = IF due = <<>> THEN NoActivator
                            ELSE [pc |-> "run", now |-> clock, due |-> due, i |-> 1]
           /\ ret' = Return("GetDueSchedules", 0, FALSE, NULL, Len(due), clock)
    /\ UNCHANGED <<tasks, task_attempts, clock, conn, pc, loc, store0, lease_log,
                   proc, pool, workers, runs, schedules, admin, call>>

\* The query fails: the error is logged and the tick is over.
processDueSchedulesErr ==
    /\ proc = "up"
    /\ activator.pc = "wait"
    /\ activator' = NoActivator
    /\ ret' = Return("GetDueSchedules", 0, TRUE, NULL, 0, clock)
    /\ UNCHANGED <<tasks, task_attempts, clock, conn, pc, loc, store0, lease_log,
                   proc, pool, workers, runs, schedules, admin, call>>

\* domain.Task{Type, Payload, Priority, MaxAttempts} of processSchedule: no
\* visibility timeout, no idempotency key.
ScheduledDraft(s) == Draft(s.task_type, "true", 0, 0, 0, NULL)

\* UPDATE schedules SET last_run=?,next_run=?,... WHERE id=?
UpdateScheduleLastRun(ss, id, lastRun, nextRun) ==
    IF ss[id].present
    THEN [ss EXCEPT ![id].last_run = lastRun, ![id].next_run = nextRun]
    ELSE ss

ProcessOutcomes == {"ok", "enqueue fails", "update fails"}

\* cron.ParseStandard(schedule.CronExpr) returns no error.
CronValid(expr) == expr \in Crons

\* The schedules table after processSchedule has parsed the expression of s:
\* UpdateScheduleLastRun(id, now, cronSchedule.Next(now)) is reached, and
\* succeeds, only after an Enqueue that returned no error.
\* (ScheduleAfterEager: the run times written before the Enqueue.)
ScheduleAfterEager(ss, s, now, outcome) ==
    IF outcome \in {"ok", "enqueue fails"}
    THEN UpdateScheduleLastRun(ss, s.id, now, CronNext(s.cron_expr, now))
    ELSE ss
ScheduleAfter(ss, s, now, outcome) ==
    IF outcome = "ok"
    THEN UpdateScheduleLastRun(ss, s.id, now, CronNext(s.cron_expr, now))
    ELSE ss

\* for _, schedule := range schedules: the error of processSchedule is
\* logged and the range goes on; after the last element the tick is over.
\* (LoopAfterAbort: a range that returns at the first error.)
LoopAfterAbort(a, err) ==
    IF err \/ a.i = Len(a.due) THEN NoActivator ELSE [a EXCEPT !.i = @ + 1]
LoopAfter(a, err) ==
    IF a.i = Len(a.due) THEN NoActivator ELSE [a EXCEPT !.i = @ + 1]

\* processSchedule on the next schedule of the list that the query returned,
\* with the fields it had then: ParseStandard, Enqueue, cronSchedule.Next(now),
\* UpdateScheduleLastRun.  An error ends it at that call; the loop goes on.
processSchedule(outcome) ==
    /\ activator.pc = "run"
    /\ LET s == activator.due[activator.i]
           parsed == CronValid(s.cron_expr)
       IN  /\ tasks' = IF parsed /\ outcome # "enqueue fails"
                       THEN Append(tasks, NewRow(ApplyDefaults(ScheduledDraft(s)), clock))
                       ELSE tasks
           /\ schedules' = IF parsed
                           THEN ScheduleAfter(schedules, s, activator.now, outcome)
                           ELSE schedules
           /\ ret' = IF ~parsed
                     THEN Return("ParseStandard", s.id, TRUE, NULL, 0, 0)
                     ELSE IF outcome = "enqueue fails"
                          THEN Return("Enqueue", NoRow, TRUE, NULL, 0, 0)
                          ELSE Return("UpdateScheduleLastRun", s.id, outcome # "ok", NULL, 0, 0)
           /\ activator' = LoopAfter(activator, ~parsed \/ outcome # "ok")
    /\ UNCHANGED <<task_attempts, clock, conn, pc, loc, store0, lease_log,
                   proc, pool, workers, runs, admin, call>>

\* Time passes.
SchedTick ==
    /\ clock + SchedStep <= MaxSchedClock
    /\ clock' = clock + SchedStep
    /\ ret' = NoRet
    /\ UNCHANGED <<tasks, task_attempts, conn, pc, loc, store0, lease_log,
                   proc, pool, workers, others>>

SchedNext ==
    \/ Startup
    \/ SchedTick
    \/ \E expr \in Crons, en \in BOOLEAN :
          Len(schedules) < MaxSchedules /\ createSchedule(expr, en)
    \/ \E id \in SchedIds, expr \in Crons \cup {""}, en \in BOOLEAN :
          updateScheduleRead(id, expr, en)
    \/ updateScheduleWrite
    \/ \E id \in SchedIds : deleteSchedule(id)
    \/ processDueSchedules
    \/ processDueSchedulesErr
    \/ \E o \in ProcessOutcomes : Len(tasks) < MaxSchedTasks /\ processSchedule(o)

SchedSpec == Init /\ [][SchedNext]_vars

\* --------------------------------------------------------------- TickSpec
\* scheduler.Service over several schedules that the admin API creates and
\* then leaves alone.
TickMaxSchedules == 2   \* schedules created in the run

TickNext ==
    \/ Startup
    \/ SchedTick
    \/ \E expr \in Crons, en \in BOOLEAN :
          Len(schedules) < TickMaxSchedules /\ createSchedule(expr, en)
    \/ processDueSchedules
    \/ processDueSchedulesErr
    \/ \E o \in ProcessOutcomes : Len(tasks) < MaxSchedTasks /\ processSchedule(o)

TickSpec == Init /\ [][TickNext]_vars

\* ------------------------------------------------------------ SiblingSpec
\* The activator of a run started over a database file whose schedules table
\* already holds up to SiblingSchedules enabled rows, due at the first or the
\* second minute; a row may carry an expression that ParseStandard rejects,
\* written by other means than the API of this version.
SiblingSchedules == 3
SiblingMaxTasks == 3
SiblingCrons == {"* * * * *", "bad"}

InitSibling ==
    /\ \E n \in 1..SiblingSchedules :
          \E es \in [1..n -> SiblingCrons], ns \in [1..n -> {60, 120}] :
             schedules = [i \in 1..n |-> ScheduleRow(es[i], TRUE, NoRun, ns[i], 0)]
    /\ tasks = <<>>
    /\ task_attempts = EmptyBag
    /\ clock = 0
    /\ conn = "free"
    /\ pc = [c \in Clients |-> "idle"]
    /\ loc = [c \in Clients |-> NoLoc]
    /\ ret = NoRet
    /\ store0 = <<>>
    /\ lease_log = <<>>
    /\ proc = "starting"
    /\ pool = NoPool
    /\ workers = [w \in Slots |-> Idle]
    /\ runs = 1
    /\ activator = NoActivator
    /\ admin = NoAdmin
    /\ call = NoCall

SiblingNext ==
    \/ Startup
    \/ SchedTick
    \/ processDueSchedules
    \/ processDueSchedulesErr
    \/ \E o \in ProcessOutcomes : Len(tasks) < SiblingMaxTasks /\ processSchedule(o)

SiblingSpec == InitSibling /\ [][SiblingNext]_vars

\* --------------------------------------------------------------- BootSpec
\* The whole of main over several runs: the startup recovery, the pool, the
\* activator over schedules the admin API creates, and POST /api/tasks.
BootNext ==
    \/ Startup
    \/ PoolTick
    \/ PoolLease
    \/ PoolDispatch
    \/ \E w \in Slots : Worker(w, "ok")
    \/ \E c \in Clients, d \in SysDrafts : Submit(c, d)
    \/ Shutdown
    \/ Restart
    \/ Len(schedules) < MaxSchedules /\ createSchedule("* * * * *", TRUE)
    \/ processDueSchedules
    \/ \E o \in ProcessOutcomes : Len(tasks) < SysMaxTasks /\ processSchedule(o)
    \/ SchedTick

BootSpec == Init /\ [][BootNext]_vars

\* ----------------------------------------------------------- DefaultsSpec
\* Enqueue called with drafts that leave priority, max_attempts and
\* visibility_timeout unset (zero) or set them, in every combination.
DefaultsDrafts ==
    {Draft("shell", "true", pr, ma, vt, NULL) : pr \in {0, 3}, ma \in {0, 2}, vt \in {0, 7}}

\* A draft whose type is the empty string, handed to Enqueue as the activator
\* hands over a schedule's task_type (service.go:74-80) or as any other
\* client of the Repository may.
EmptyTypeDrafts == {Draft("", "true", 0, 0, 0, NULL)}

DefaultsNext ==
    \/ Tick
    \/ \E c \in Clients, d \in DefaultsDrafts : RoomFor(d, MaxTasks) /\ Enqueue(c, d)
    \/ \E c \in Clients, d \in EmptyTypeDrafts : RoomFor(d, MaxTasks) /\ Enqueue(c, d)

DefaultsSpec == Init /\ [][DefaultsNext]_vars

\* ------------------------------------------------------------ BackoffSpec
\* backoffExp applied to one argument.
MaxBackoffIn == 66
BackoffInputs == (0 - 2)..MaxBackoffIn

InitBackoff ==
    /\ tasks = <<>>
    /\ task_attempts = EmptyBag
    /\ clock = 0
    /\ conn = "free"
    /\ pc = [c \in Clients |-> "idle"]
    /\ loc = [c \in Clients |-> NoLoc]
    /\ ret = NoRet
    /\ store0 = <<>>
    /\ lease_log = <<>>
    /\ proc = "up"
    /\ pool = NoPool
    /\ workers = [w \in Slots |-> Idle]
    /\ runs = 1
    /\ schedules = <<>>
    /\ activator = NoActivator
    /\ admin = NoAdmin
    /\ \E a \in BackoffInputs : call = [NoCall EXCEPT !.arg = a]

\* next := backoffExp(attempts)
BackoffCall ==
    /\ call.fn = ""
    /\ call' = [fn |-> "backoffExp", arg |-> call.arg, val |-> backoffExp(call.arg)]
    /\ UNCHANGED <<tasks, task_attempts, clock, conn, pc, loc, ret, store0, lease_log,
                   proc, pool, workers, runs, schedules, activator, admin>>

BackoffSpec == InitBackoff /\ [][BackoffCall]_vars

\* ---------------------------------------------------------------- claims
Min(a, b) == IF a < b THEN a ELSE b

\* Ids of stored tasks that the completed LeaseNext calls returned.
Returned == {lease_log[k] : k \in DOMAIN lease_log} \ {0}

\* The ready tasks of the store the calls started from.
Ready0 == {i \in DOMAIN store0 : store0[i].state = "queued" /\ store0[i].next_run_at <= clock}

\* C1 (LeaseSpec): Single-owner lease.  Over a store holding K ready tasks,
\* the LeaseNext(now) calls that return a stored task return pairwise distinct
\* ids, and after n completed calls exactly min(K, n) distinct ids have been
\* returned.
C1_SingleOwnerLease ==
    /\ \A j, k \in DOMAIN lease_log :
          j # k /\ lease_log[j] # 0 => lease_log[j] # lease_log[k]
    /\ Cardinality(Returned) = Min(Cardinality(Ready0), Len(lease_log))

\* Three completed calls over two ready tasks: two distinct ids and one call
\* that found nothing.
C1_Witness ==
    /\ Cardinality(Ready0) = 2
    /\ Len(lease_log) = 3
    /\ Cardinality(Returned) = 2
    /\ lease_log[3] = 0

Terminal == {"succeeded", "failed", "canceled"}

\* C2 (Spec): Terminal absorption.  No step moves a task out of a terminal
\* state: a task that is succeeded, failed or canceled keeps its state through
\* every operation, Succeed, Retry and Fail on its id included.
C2_TerminalAbsorption ==
    [][\A i \in DOMAIN tasks :
          tasks[i].state \in Terminal => tasks'[i].state = tasks[i].state]_vars

\* The task_attempts rows of task i.
AttemptRowsOf(i) ==
    LET rows == {a \in BagToSet(task_attempts) : a.task_id = i}
    IN  BagCardinality([a \in rows |-> task_attempts[a]])

\* C3 (FairSysSpec): Retry budget.  While the store fails no call, a task
\* with max_attempts = M whose handler fails on every execution eventually is
\* failed with exactly M attempt rows recorded for it.
C3_RetryBudget ==
    [](~ret.err) =>
        \A i \in 1..SysMaxTasks :
            (i \in Ids /\ tasks[i].type \in Handlers /\ HandlerFails(tasks[i].payload))
                ~> /\ i \in Ids
                   /\ tasks[i].state = "failed"
                   /\ AttemptRowsOf(i) = tasks[i].max_attempts

\* C4 (Spec): in every state every task has attempts <= max_attempts, and a
\* Retry that brings attempts to max_attempts leaves the task failed.
C4_AttemptsBounded ==
    [][/\ \A i \in DOMAIN tasks' : tasks'[i].attempts <= tasks'[i].max_attempts
       /\ \A i \in DOMAIN tasks :
             /\ ret'.op = "Retry"
             /\ tasks'[i].attempts = tasks[i].attempts + 1
             /\ tasks'[i].attempts = tasks'[i].max_attempts
             => tasks'[i].state = "failed"]_vars

\* C5 (Spec): Visibility-timeout reclaim.  RecoverStale(now) sets to queued,
\* with next_run_at = now and attempts unchanged, exactly the running tasks
\* with now - updated_at > visibility_timeout, returns their number, and
\* leaves the state, attempts and next_run_at of every other task unchanged.
C5_VisibilityTimeoutReclaim ==
    [][ret'.op = "RecoverStale" =>
          LET now == ret'.now
              stale == {i \in DOMAIN tasks :
                          /\ tasks[i].state = "running"
                          /\ now - tasks[i].updated_at > tasks[i].visibility_timeout}
          IN  /\ ret'.n = Cardinality(stale)
              /\ \A i \in stale :
                    /\ tasks'[i].state = "queued"
                    /\ tasks'[i].next_run_at = now
                    /\ tasks'[i].attempts = tasks[i].attempts
              /\ \A i \in DOMAIN tasks \ stale :
                    /\ tasks'[i].state = tasks[i].state
                    /\ tasks'[i].next_run_at = tasks[i].next_run_at
                    /\ tasks'[i].attempts = tasks[i].attempts]_vars

\* Tasks A(priority 3, t1), B(priority 5, t1+1), C(priority 5, t1+2), all ready.
ExampleABC ==
    /\ Len(store0) = 3
    /\ Ready0 = {1, 2, 3}
    /\ store0[1].priority = 3 /\ store0[2].priority = 5 /\ store0[3].priority = 5
    /\ store0[2].created_at = store0[1].created_at + 1
    /\ store0[3].created_at = store0[1].created_at + 2

\* C6 (LeaseSpec): Priority/age order.  Each LeaseNext(now) returns, among the
\* tasks that are queued with next_run_at <= now, one of the highest priority
\* and, among those, of the earliest created_at; over A, B, C of the example
\* three successive calls return B, C, A.
C6_PriorityAgeOrder ==
    /\ \A k \in DOMAIN lease_log :
          lease_log[k] # 0 =>
             LET i == lease_log[k]
                 rest == Ready0 \ {lease_log[m] : m \in 1..(k - 1)}
             IN  /\ i \in rest
                 /\ \A j \in rest : store0[j].priority <= store0[i].priority
                 /\ \A j \in rest : store0[j].priority = store0[i].priority
                                       => store0[i].created_at <= store0[j].created_at
    /\ ExampleABC /\ Len(lease_log) >= 3 => SubSeq(lease_log, 1, 3) = <<2, 3, 1>>

\* The example's three calls have returned B, C, A.
C6_Witness == ExampleABC /\ lease_log = <<2, 3, 1>>

\* C7 (Spec): Idempotent submit.  When a task with the non-null key k exists,
\* an Enqueue carrying k returns that task's id without error and changes no
\* row of tasks or task_attempts, whatever state the task is in.
C7_IdempotentSubmit ==
    [][\A c \in Clients, d \in Drafts :
          /\ d.idempotency_key # NULL
          /\ \E i \in DOMAIN tasks : tasks[i].idempotency_key = d.idempotency_key
          /\ Enqueue(c, d)
          => /\ ret'.op = "Enqueue"
             /\ ~ret'.err
             /\ ret'.id \in DOMAIN tasks
             /\ tasks[ret'.id].idempotency_key = d.idempotency_key
             /\ tasks' = tasks
             /\ task_attempts' = task_attempts
             /\ pc'[c] = "idle"]_vars

\* An Enqueue has returned the id of a task that had already run and failed.
C7_Witness ==
    /\ ret.op = "Enqueue" /\ ret.key # NULL /\ ~ret.err
    /\ ret.id \in DOMAIN tasks
    /\ tasks[ret.id].state = "failed"
    /\ tasks[ret.id].attempts = 1
    /\ tasks[ret.id].next_run_at > tasks[ret.id].created_at

\* C8 (Spec): Idempotency conflict under concurrency.  Every Enqueue that
\* carries a non-null key returns without error the id of the one task
\* holding that key, however the calls interleave.
C8_ConflictResolvedInternally ==
    ret.op = "Enqueue" /\ ret.key # NULL
        => /\ ~ret.err
           /\ ret.id \in DOMAIN tasks
           /\ tasks[ret.id].idempotency_key = ret.key

\* C9 (Spec): no two task rows share a non-null idempotency_key.
C9_UniqueIdempotencyKey ==
    \A i, j \in DOMAIN tasks :
        i # j /\ tasks[i].idempotency_key # NULL
            => tasks[i].idempotency_key # tasks[j].idempotency_key

\* Two Enqueue calls carried the same key past the lookup: the second INSERT
\* was refused and one row holds the key.
C9_Witness ==
    /\ ret.op = "Enqueue" /\ ret.err /\ ret.key # NULL
    /\ Cardinality({i \in DOMAIN tasks : tasks[i].idempotency_key = ret.key}) = 1
    /\ Len(tasks) = 2

\* Task i is running and no goroutine holds it any more: its ack was dropped.
Orphaned(i) ==
    /\ i \in Ids
    /\ tasks[i].state = "running"
    /\ pool.tk.id # i
    /\ \A w \in Slots : workers[w].tk.id # i

\* C10 (FairSysSpec): Dropped acks are reclaimed.  While the process runs, a
\* task left running by a failed Succeed, Retry or Fail is eventually queued
\* again, at the latest once the store has stopped failing.
C10_DroppedAcksReclaimed ==
    <>[](~ret.err) =>
        \A i \in 1..SysMaxTasks :
            Orphaned(i) ~> (i \in Ids /\ tasks[i].state = "queued")

\* The task of slot w is one whose handler ran and returned an error.
HandlerErrored(w) ==
    /\ workers[w].busy
    /\ workers[w].tk.type \in Handlers
    /\ HandlerFails(workers[w].tk.payload)

\* C19 (FairSysSpec): Backoff sequence seen by a task.  For a task whose
\* handler fails on every execution, the delay the pool passes to Retry on
\* the task's k-th retry is min(2^(k-1), 60) seconds: 1 on the first retry,
\* 2 on the second, doubling up to the cap.  The task leased for its k-th
\* failing execution carries attempts = k - 1.
C19_BackoffSequence ==
    [][\A w \in Slots :
          HandlerErrored(w) /\ Worker(w, "ok")
              => Retry(workers[w].tk.id, "shell error",
                       Min(2 ^ workers[w].tk.attempts, 60), "ok")]_vars

\* C20 (Spec): Attempts counts successes too.  A Succeed that completes on a
\* running task with attempts = a leaves it succeeded with attempts = a + 1
\* and appends one attempt row with success = true.
C20_SucceedCountsAttempt ==
    [][\A id \in Ids :
          tasks[id].state = "running" /\ Call(Succeed(id, "ok"))
              => /\ tasks'[id].state = "succeeded"
                 /\ tasks'[id].attempts = tasks[id].attempts + 1
                 /\ task_attempts' = task_attempts (+) SetToBag({AttemptRow(id, 1, "")})]_vars

\* min(2^n, cap) for n >= 0, by doubling up to the cap.
RECURSIVE Pow2Capped(_, _)
Pow2Capped(n, cap) ==
    IF n = 0 THEN Min(1, cap)
    ELSE LET h == Pow2Capped(n - 1, cap) IN IF h >= cap THEN cap ELSE Min(2 * h, cap)

\* The delays of attempts 1..10, in seconds.
BackoffTable == <<1, 2, 4, 8, 16, 32, 60, 60, 60, 60>>

\* C18 (BackoffSpec): Backoff cap.  backoffExp maps attempts = 1..10 to
\* 1,2,4,8,16,32,60,60,60,60 seconds, returns min(2^(a-1), 60) seconds for
\* every a >= 1, and for every integer input returns at least 1 second and at
\* most 60 seconds.
C18_BackoffCap ==
    call.fn = "backoffExp"
        => /\ call.arg \in 1..10 => call.val = BackoffTable[call.arg]
           /\ call.arg >= 1 => call.val = Pow2Capped(call.arg - 1, 60)
           /\ call.val >= 1
           /\ call.val <= 60

\* C17 (DefaultsSpec): Default application.  Enqueue of a draft without an
\* idempotency key creates one task with attempts = 0 and state = queued
\* whose priority, max_attempts and visibility_timeout are 5, 5 and 60 where
\* the draft has zero and the supplied value where it is non-zero.
C17_DefaultApplication ==
    [][\A c \in Clients, d \in DefaultsDrafts :
          Enqueue(c, d)
              => /\ ~ret'.err /\ ret'.id = Len(tasks) + 1
                 /\ Len(tasks') = Len(tasks) + 1
                 /\ \A i \in Ids : tasks'[i] = tasks[i]
                 /\ LET r == tasks'[Len(tasks')]
                    IN  /\ r.priority = IF d.priority = 0 THEN 5 ELSE d.priority
                        /\ r.max_attempts = IF d.max_attempts = 0 THEN 5 ELSE d.max_attempts
                        /\ r.visibility_timeout =
                              IF d.visibility_timeout = 0 THEN 60 ELSE d.visibility_timeout
                        /\ r.attempts = 0
                        /\ r.state = "queued"]_vars

\* An all-zero draft was stored with the three defaults, after a draft that
\* set the three fields was stored as given.
C17_Witness ==
    /\ ret.op = "Enqueue" /\ ~ret.err /\ ret.id = 2 /\ Len(tasks) = 2
    /\ tasks[1].priority = 3 /\ tasks[1].max_attempts = 2 /\ tasks[1].visibility_timeout = 7
    /\ tasks[2].priority = 5 /\ tasks[2].max_attempts = 5 /\ tasks[2].visibility_timeout = 60
    /\ tasks[2].attempts = 0 /\ tasks[2].state = "queued"

\* C11 (FairRunsSpec): Shutdown recovery.  Every task that is running when
\* the process shuts down is returned to queued by the RecoverStale of the
\* next process, which then leases it again.
C11_ShutdownRecovery ==
    [](~ret.err) =>
        \A i \in 1..SysMaxTasks, k \in 1..(MaxRuns - 1) :
            (proc = "down" /\ runs = k /\ i \in Ids /\ tasks[i].state = "running")
                ~> (runs = k + 1 /\ ret.op = "RecoverStale" /\ i \in Ids
                        /\ tasks[i].state = "queued")

\* A handler has returned an error and the pool has recorded it.
HandlerHasFailed == \E i \in Ids : CopiesIn(AttemptRow(i, 0, "shell error"), task_attempts) > 0

\* C13 (FairRunsSpec): Pool resilience.  After a handler invocation panics or
\* returns an error the pool keeps running, and every task that is ready
\* afterwards is still eventually leased and dispatched.
C13_PoolResilience ==
    /\ [][\A w \in Slots :
             HandlerPanic(w) \/ (HandlerErrored(w) /\ \E o \in AckOutcomes : Worker(w, o))
                 => proc' = "up"]_vars
    /\ [](~ret.err) =>
          \A i \in 1..SysMaxTasks :
              (HandlerHasFailed /\ proc = "up" /\ i \in Ready(tasks, clock))
                  ~> (\E w \in Slots : workers[w].busy /\ workers[w].tk.id = i)

\* C14 (TickSpec): Schedule single-fire per tick.  The list a tick works
\* through holds every enabled schedule with next_run <= now exactly once;
\* for each schedule of the list the tick, when no store call fails, enqueues
\* exactly one task, however many firing times have passed since next_run,
\* and sets its next_run strictly later than the tick's now and than the
\* previous next_run.
C14_SingleFirePerTick ==
    [][/\ processDueSchedules
          => LET due == {i \in SchedIds : schedules[i].enabled /\ schedules[i].next_run <= clock}
             IN  /\ Len(activator'.due) = Cardinality(due)
                 /\ {activator'.due[k].id : k \in DOMAIN activator'.due} = due
                 /\ activator'.now = IF due = {} THEN 0 ELSE clock
       /\ processSchedule("ok")
          => LET s == activator.due[activator.i]
             IN  /\ Len(tasks') = Len(tasks) + 1
                 /\ schedules'[s.id].next_run > activator.now
                 /\ schedules'[s.id].next_run > schedules[s.id].next_run
                 /\ IF activator.i < Len(activator.due)
                    THEN activator' = [activator EXCEPT !.i = @ + 1]
                    ELSE activator'.pc = "wait"]_vars

\* Two schedules created at second 0 to fire every minute were first found
\* due by the tick of second 120, two firing times late: two tasks exist, one
\* for each, and both schedules wait for second 180.
C14_Witness ==
    /\ ret.op = "UpdateScheduleLastRun" /\ ~ret.err
    /\ Len(schedules) = 2 /\ Len(tasks) = 2
    /\ \A i \in SchedIds :
          /\ schedules[i].created_at = 0 /\ schedules[i].cron_expr = "* * * * *"
          /\ schedules[i].last_run = 120 /\ schedules[i].next_run = 180

\* C15 (SchedSpec): Disabled schedules never produce tasks.  However the
\* admin create, update and delete interleave with the ticks, the activator
\* enqueues no task for a schedule whose enabled flag is false at the moment
\* of the enqueue.
C15_DisabledNeverFires ==
    [][\A o \in ProcessOutcomes \ {"enqueue fails"} :
          processSchedule(o)
              => LET id == activator.due[activator.i].id
                 IN  schedules[id].present => schedules[id].enabled]_vars

\* C16 (SchedSpec): in every reachable state every schedule whose last_run is
\* non-null has next_run strictly later than last_run, and no step moves
\* next_run of a schedule backwards while leaving its cron_expr unchanged.
C16_NextRunAfterLastRun ==
    /\ [](\A i \in SchedIds :
             schedules[i].present /\ schedules[i].last_run # NoRun
                 => schedules[i].next_run > schedules[i].last_run)
    /\ [][\A i \in SchedIds :
             schedules[i].present /\ schedules'[i].present
                 /\ schedules'[i].cron_expr = schedules[i].cron_expr
                 => schedules'[i].next_run >= schedules[i].next_run]_vars

\* C12 (BootSpec): Startup ordering.  On every process start RecoverStale is
\* called exactly once, and it has returned before the pool's first
\* LeaseNext, before the activator's first tick and before the admin API
\* accepts a submission: a start becomes a running process only by the step
\* in which RecoverStale returns, RecoverStale is called in no other step,
\* and every other store call, and every tick of the pool and of the
\* activator, is made by a running process.
C12_StartupOrdering ==
    [][/\ (ret'.op = "RecoverStale") => (proc = "starting" /\ proc' = "up")
       /\ (proc # "up" /\ proc' = "up") => (proc = "starting" /\ ret'.op = "RecoverStale")
       /\ (proc # "starting" /\ proc' = "starting")
              => (proc \in {"down", "crashed"} /\ runs' = runs + 1)
       /\ (ret'.op \notin {"", "RecoverStale"}) => (proc = "up" /\ proc' = "up")
       /\ (PoolTick \/ processDueSchedules) => (proc = "up" /\ proc' = "up")]_vars

\* The second process has just come up: its RecoverStale requeued the task
\* that the first left running, and neither the pool nor the activator has
\* made a step yet.
C12_Witness ==
    /\ runs = 2 /\ proc = "up"
    /\ ret.op = "RecoverStale" /\ ret.n = 1
    /\ pool = NoPool /\ activator = NoActivator
    /\ \E i \in Ids : tasks[i].state = "queued" /\ tasks[i].updated_at = clock

\* C21: the Retry call that exhausts the budget (attempts reaches
\* max_attempts) moves the running task to failed and leaves its next_run_at
\* as it was; a Retry that returns the task to queued sets next_run_at to
\* now + delay.
C21_ExhaustedRetryKeepsNextRun ==
    [][\A id \in Ids, delay \in Delays :
          (Call(Retry(id, "boom", delay, "ok")) /\ tasks[id].state = "running") =>
             IF tasks[id].attempts + 1 >= tasks[id].max_attempts
             THEN /\ tasks'[id].state = "failed"
                  /\ tasks'[id].next_run_at = tasks[id].next_run_at
             ELSE /\ tasks'[id].state = "queued"
                  /\ tasks'[id].next_run_at = clock + delay]_vars

\* C29: every change of a task's state is queued->running, running->succeeded,
\* running->queued or running->failed; Succeed, Retry and Fail applied to a
\* queued task leave its state alone.
Transitions ==
    {<<"queued", "running">>, <<"running", "succeeded">>,
     <<"running", "queued">>, <<"running", "failed">>}
C29_TransitionRelation ==
    [][\A i \in Ids :
          tasks'[i].state # tasks[i].state =>
             <<tasks[i].state, tasks'[i].state>> \in Transitions]_vars

\* C28: LeaseNext(now) returns only a task that was queued with
\* next_run_at <= now; a task re-queued by Retry at time t with delay d (its
\* next_run_at is then t + d) is not returned for any now' < t + d.
C28_Eligibility ==
    [][\A now \in 0..MaxClock :
          (Call(LeaseNext(now)) /\ ret'.id # 0) =>
             /\ tasks[ret'.id].state = "queued"
             /\ tasks[ret'.id].next_run_at <= now
             /\ tasks'[ret'.id].state = "running"]_vars
    /\ [][\A id \in Ids, delay \in Delays :
             (Call(Retry(id, "boom", delay, "ok")) /\ tasks'[id].state = "queued") =>
                tasks'[id].next_run_at = clock + delay]_vars
\* A task that Retry re-queued (attempts counted, next_run_at in the future of
\* its creation) has just been leased.
C28_Witness ==
    /\ ret.op = "LeaseNext" /\ ret.id # 0
    /\ tasks[ret.id].state = "running"
    /\ tasks[ret.id].attempts >= 1
    /\ tasks[ret.id].next_run_at > tasks[ret.id].created_at

\* C24: LeaseNext(now) called when no task is queued with next_run_at <= now
\* reports NoneReady, an outcome its caller can tell from a lease (an error
\* value, ErrEmpty), returns no task and changes no row.
C24_NoneReady ==
    [][\A now \in 0..MaxClock :
          (Call(LeaseNext(now)) /\ Ready(tasks, now) = {}) =>
             /\ ret'.err
             /\ ret'.id = 0
             /\ tasks' = tasks /\ task_attempts' = task_attempts]_vars

\* C23: Enqueue called with an empty type returns an error and creates no
\* task row, whoever the caller is.
C23_EmptyTypeRejected ==
    [][\A c \in Clients, d \in EmptyTypeDrafts :
          Enqueue(c, d) => ret'.err /\ tasks' = tasks]_vars

\* C25: each tick of the pool ends its lease loop: a LeaseNext that finds no
\* ready task sends the pool back to waiting for the next tick (one call when
\* the queue is empty), and a pool inside the loop always gets back there.
C25_LeaseLoopTerminates ==
    /\ [][(PoolLease /\ ret'.id = 0) => pool'.pc = "tick"]_vars
    /\ (pool.pc = "lease" ~> pool.pc = "tick")

\* C22: a leased task whose type has no handler in the registry is hard-failed
\* by the pool with reason "no handler": whatever its remaining budget, the
\* ack moves it to failed and appends exactly one failure attempt row; no
\* handler runs for it (no other attempt row is ever recorded for it) and
\* once failed it is never queued again.
NoHandlerRow(id) == AttemptRow(id, 0, "no handler")
C22_NoHandlerHardFail ==
    /\ [][\A w \in Slots :
             (Worker(w, "ok") /\ workers[w].tk.id # 0
                  /\ workers[w].tk.type \notin Handlers) =>
                LET id == workers[w].tk.id
                IN  /\ tasks'[id].state = "failed"
                    /\ tasks'[id].attempts = tasks[id].attempts
                    /\ task_attempts' = task_attempts (+) SetToBag({NoHandlerRow(id)})]_vars
    /\ [][\A i \in Ids :
             (tasks[i].type \notin Handlers /\ tasks[i].state = "failed") =>
                tasks'[i].state = "failed"]_vars
    /\ [](\A r \in BagToSet(task_attempts) :
             (r.task_id \in Ids /\ tasks[r.task_id].type \notin Handlers) =>
                r = NoHandlerRow(r.task_id))
\* A task of an unregistered type, leased with its whole budget left, has just
\* been failed by its goroutine with one "no handler" row.
C22_Witness ==
    /\ ret.op = "Fail" /\ ~ret.err
    /\ \E i \in Ids :
          /\ tasks[i].type \notin Handlers
          /\ tasks[i].state = "failed"
          /\ tasks[i].attempts + 1 < tasks[i].max_attempts
          /\ CopiesIn(NoHandlerRow(i), task_attempts) = 1
          /\ BagCardinality(task_attempts) = 1

\* The slots whose goroutine has not finished, and the stored tasks the pool
\* has leased and not yet acked: the one it holds while it waits for a permit
\* and those of its goroutines.
Busy == {w \in Slots : workers[w].busy}
InFlight ==
    {i \in Ids : \/ pool.pc = "sem" /\ pool.tk.id = i
                 \/ \E w \in Busy : workers[w].tk.id = i}

\* C26: the pool makes no LeaseNext call while N executions are in flight: at
\* every moment the tasks it has leased and not yet acked are at most N, so
\* no task is running while it waits for a permit.
C26_LeaseUnderPermit == Cardinality(InFlight) <= PoolSize

\* C27: at most N handler invocations execute at the same time: a goroutine
\* starts only on a permit that was free, and it gives its permit back when
\* it finishes, whether its handler succeeded, failed or was missing; every
\* permit taken is given back.
C27_BoundedConcurrency ==
    /\ [](Cardinality(Busy) <= PoolSize)
    /\ [][PoolDispatch =>
             /\ Cardinality(Busy) < PoolSize
             /\ \E w \in Slots \ Busy :
                   /\ Busy' = Busy \cup {w}
                   /\ workers'[w].tk = pool.tk
             /\ \A w \in Busy : workers'[w] = workers[w]]_vars
    /\ [][\A w \in Slots : Worker(w, "ok") => Busy' = Busy \ {w}]_vars
    /\ \A w \in Slots : (workers[w].busy ~> ~workers[w].busy)
\* Every permit is taken by the goroutine of a stored task, one per path
\* through the goroutine or more, while the pool holds a further task.
C27_Witness ==
    /\ Busy = Slots
    /\ \A w \in Slots : workers[w].tk.id \in Ids
    /\ \A v, w \in Slots : v # w => workers[v].tk.id # workers[w].tk.id
    /\ pool.pc = "sem" /\ pool.tk.id \in Ids

\* C30: however the pool, RecoverStale and the handler completions interleave,
\* a task is held by one execution at a time: no two goroutines run a handler
\* for the same task, and no goroutine is still to ack a task that has been
\* re-queued and leased again.
Holders(i) ==
    Cardinality({w \in Busy : workers[w].tk.id = i})
        + (IF pool.pc = "sem" /\ pool.tk.id = i THEN 1 ELSE 0)
C30_SingleExecution == \A i \in Ids : Holders(i) <= 1

\* C31: each Succeed, Retry and Fail call either appends its attempt row and
\* rewrites the task row, or does neither, also when it is cancelled or the
\* store fails part-way.
AckBoth(id, attempt, row) ==
    /\ task_attempts' = task_attempts (+) SetToBag({attempt})
    /\ tasks' = [tasks EXCEPT ![id] = row]
AckNeither == task_attempts' = task_attempts /\ tasks' = tasks
C31_AckAtomicity ==
    [][\A id \in Ids, o \in AckOutcomes :
          /\ Call(Succeed(id, o)) =>
                \/ AckBoth(id, AttemptRow(id, 1, ""), SucceedRow(tasks[id], clock))
                \/ AckNeither
          /\ (\E delay \in Delays : Call(Retry(id, "boom", delay, o))) =>
                \/ \E delay \in Delays :
                      AckBoth(id, AttemptRow(id, 0, "boom"), RetryRow(tasks[id], delay, clock))
                \/ AckNeither
          /\ Call(Fail(id, "boom", o)) =>
                \/ AckBoth(id, AttemptRow(id, 0, "boom"), FailRow(tasks[id], clock))
                \/ AckNeither]_vars

\* C33: every attempt row carries the id of a stored task, and the pool never
\* holds, dispatches or acks a Task that LeaseNext did not claim from the
\* store (the zero-valued Task of the empty id).
C33_OnlyClaimedTasks ==
    /\ \A r \in BagToSet(task_attempts) : r.task_id \in Ids
    /\ \A w \in Slots : workers[w].busy => workers[w].tk.id \in Ids
    /\ pool.pc = "sem" => pool.tk.id \in Ids

\* C34: the activator loses no firing: a tick changes the last_run or next_run
\* of a schedule only in the step that has enqueued a task for that schedule,
\* and when the Enqueue fails the schedules are left as they were, so a
\* schedule that was due stays due at every later tick.
RunTimes(ss) == [i \in DOMAIN ss |-> <<ss[i].last_run, ss[i].next_run>>]
C34_NoLostFiring ==
    /\ [][(processDueSchedules \/ processDueSchedulesErr) => schedules' = schedules]_vars
    /\ [][\A o \in ProcessOutcomes :
             processSchedule(o) =>
                LET s == activator.due[activator.i]
                IN  /\ \A i \in SchedIds :
                          RunTimes(schedules')[i] # RunTimes(schedules)[i] =>
                             /\ i = s.id
                             /\ ~ret'.err
                             /\ Len(tasks') = Len(tasks) + 1
                             /\ tasks'[Len(tasks')].type = s.task_type
                             /\ tasks'[Len(tasks')].state = "queued"
                    /\ o = "enqueue fails" =>
                          /\ schedules' = schedules /\ tasks' = tasks
                          /\ \A t \in activator.now..MaxSchedClock :
                                s.id \in Due(schedules, activator.now) =>
                                   s.id \in Due(schedules', t)]_vars
\* The Enqueue of a tick has just failed for a schedule that never ran: no
\* task exists and the schedule is as due as it was.
C34_Witness ==
    /\ ret.op = "Enqueue" /\ ret.err
    /\ tasks = <<>>
    /\ \E i \in SchedIds :
          /\ schedules[i].last_run = NoRun
          /\ i \in Due(schedules, clock)

\* C32: within one tick every due schedule that the query returned is
\* processed, in ascending next_run order, whether or not processing a
\* sibling failed (cron parse error, Enqueue error, failure to store the run
\* times); a schedule whose cron_expr does not parse gets no task and keeps
\* its last_run and next_run.
Ascending(due) ==
    \A k, l \in DOMAIN due : k < l => due[k].next_run <= due[l].next_run
C32_SiblingIsolation ==
    /\ [][processDueSchedules =>
             /\ {activator'.due[k].id : k \in DOMAIN activator'.due} = Due(schedules, clock)
             /\ Len(activator'.due) = Cardinality(Due(schedules, clock))
             /\ Ascending(activator'.due)]_vars
    /\ [][\A o \in ProcessOutcomes :
             processSchedule(o) =>
                LET s == activator.due[activator.i]
                IN  /\ IF activator.i < Len(activator.due)
                       THEN activator' = [activator EXCEPT !.i = @ + 1]
                       ELSE activator'.pc = "wait"
                    /\ ~CronValid(s.cron_expr) =>
                          ret'.err /\ tasks' = tasks /\ schedules' = schedules
                    /\ (CronValid(s.cron_expr) /\ o = "ok") =>
                          /\ Len(tasks') = Len(tasks) + 1
                          /\ schedules'[s.id].last_run = activator.now]_vars
\* In a tick that found three schedules due, the first did not parse and
\* was left as it was; the second has just been processed, its task exists,
\* and the third is next.
C32_Witness ==
    /\ activator.pc = "run" /\ Len(activator.due) = 3 /\ activator.i = 3
    /\ ~CronValid(activator.due[1].cron_expr)
    /\ schedules[activator.due[1].id].last_run = NoRun
    /\ schedules[activator.due[1].id].next_run = activator.due[1].next_run
    /\ ret.op = "UpdateScheduleLastRun" /\ ~ret.err /\ ret.id = activator.due[2].id
    /\ schedules[activator.due[2].id].last_run = activator.now
    /\ Len(tasks) = 1

====
